---------------------------- MODULE Spec2Model ----------------------------
(***************************************************************************)
(* A model of the Bedrock-agent GitHub Action.                             *)
(*                                                                         *)
(* Two entry points are modelled:                                          *)
(*   - the snapshot pipeline (src/index.js): enumerate the files of the    *)
(*     default branch, filter them, fetch their content concurrently,      *)
(*     build the prompt, invoke the agent, print the report;               *)
(*   - the ad-hoc entry point (src/unnamed/part_000): forward the          *)
(*     instruction to the agent and print the response.                    *)
(*                                                                         *)
(* A run is a JavaScript process.  Its code between two awaits runs        *)
(* without interruption, so each action below is one such segment.         *)
(* Strings that the code inspects (paths, patterns, raw inputs) are        *)
(* sequences of one-character strings; rendered text is a sequence of      *)
(* tokens, a token being a literal of the code or one character.           *)
(*                                                                         *)
(* Left out: the core.info lines that do not depend on the debug input,    *)
(* the agent_id and agent_alias_id inputs (the same agent and alias for    *)
(* every run), and the test typeof prompt !== 'string' of main, which a    *)
(* template literal never satisfies.                                       *)
(***************************************************************************)
EXTENDS Integers, Sequences, FiniteSets, TLC

(***************************************************************************)
(* Bounds of the model.                                                    *)
(***************************************************************************)
\* Longest listing the source-control host returns for the repository root.
MaxFiles == 2
\* Number of times the wall clock advances during the runs.
MaxTicks == 1

\* The concurrent runs of the action (runners sharing the agent and alias).
Runs == {"r1", "r2"}

(***************************************************************************)
(* Strings.                                                                *)
(***************************************************************************)
RECURSIVE Flatten(_)
\* Array.prototype.join('') of an array of texts.
Flatten(ss) == IF ss = <<>> THEN <<>> ELSE Head(ss) \o Flatten(Tail(ss))

Whitespace == {" ", "\t", "\n", "\r"}

RECURSIVE TrimStart(_)
TrimStart(s) ==
    IF s # <<>> /\ Head(s) \in Whitespace THEN TrimStart(Tail(s)) ELSE s

RECURSIVE TrimEnd(_)
TrimEnd(s) ==
    IF s # <<>> /\ s[Len(s)] \in Whitespace
    THEN TrimEnd(SubSeq(s, 1, Len(s) - 1))
    ELSE s

\* String.prototype.trim
Trim(s) == TrimEnd(TrimStart(s))

RECURSIVE SplitAcc(_, _, _)
SplitAcc(s, sep, cur) ==
    IF s = <<>> THEN <<cur>>
    ELSE IF Head(s) = sep THEN <<cur>> \o SplitAcc(Tail(s), sep, <<>>)
    ELSE SplitAcc(Tail(s), sep, Append(cur, Head(s)))

\* String.prototype.split(sep) for a one-character separator: '' splits
\* into [''].
Split(s, sep) == SplitAcc(s, sep, <<>>)

\* Array.prototype.map
Map(ss, Op(_)) == [i \in 1..Len(ss) |-> Op(ss[i])]

\* String.prototype.startsWith for a one-character prefix.
StartsWith(s, c) == s # <<>> /\ Head(s) = c

(***************************************************************************)
(* minimatch(filename, pattern) with its default options, for patterns     *)
(* made of literal characters, '?', '*', '**' and '/'.                     *)
(***************************************************************************)
\* slashSplit: split on runs of '/'.
SlashSplit(s) ==
    LET parts == Split(s, "/")
    IN  SelectSeq([i \in 1..Len(parts) |-> <<i, parts[i]>>],
                  LAMBDA p : p[2] # <<>> \/ p[1] = 1 \/ p[1] = Len(parts))

Segments(s) == LET ps == SlashSplit(s) IN [i \in 1..Len(ps) |-> ps[i][2]]

GLOBSTAR == <<"*", "*">>

HasMagic(seg) == \E i \in 1..Len(seg) : seg[i] \in {"*", "?"}

RECURSIVE Wild(_, _)
\* '*' is [^/]*? and '?' is [^/] within one path segment.
Wild(s, p) ==
    IF p = <<>> THEN s = <<>>
    ELSE IF Head(p) = "*"
         THEN Wild(s, Tail(p)) \/ (s # <<>> /\ Wild(Tail(s), p))
    ELSE IF Head(p) = "?"
         THEN s # <<>> /\ Wild(Tail(s), Tail(p))
    ELSE s # <<>> /\ Head(s) = Head(p) /\ Wild(Tail(s), Tail(p))

\* One pattern segment against one path segment: a segment without magic is
\* compared as a string; a segment with magic is a regular expression that
\* refuses a leading dot unless the pattern spells it, and that refuses the
\* empty segment when the pattern starts with magic.
SegMatch(seg, pat) ==
    IF HasMagic(pat)
    THEN /\ (Head(pat) # "." => (seg = <<>> \/ Head(seg) # "."))
         /\ (Head(pat) \in {"*", "?"} => seg # <<>>)
         /\ Wild(seg, pat)
    ELSE seg = pat

DotSegment(seg) == seg # <<>> /\ Head(seg) = "."

RECURSIVE MatchOne(_, _)
\* Minimatch.prototype.matchOne with partial = false.
MatchOne(file, pattern) ==
    IF file = <<>> /\ pattern = <<>> THEN TRUE
    ELSE IF file = <<>> THEN FALSE
    ELSE IF pattern = <<>> THEN Len(file) = 1 /\ file[1] = <<>>
    ELSE IF Head(pattern) = GLOBSTAR
         THEN IF Len(pattern) = 1
              THEN \A i \in 1..Len(file) : ~DotSegment(file[i])
              ELSE \E fr \in 1..Len(file) :
                      /\ \A i \in 1..(fr - 1) : ~DotSegment(file[i])
                      /\ MatchOne(SubSeq(file, fr, Len(file)), Tail(pattern))
    ELSE /\ SegMatch(Head(file), Head(pattern))
         /\ MatchOne(Tail(file), Tail(pattern))

\* A pattern starting with '#' is a comment and matches nothing; the empty
\* pattern matches the empty filename only.
minimatch(filename, pattern) ==
    IF StartsWith(pattern, "#") THEN FALSE
    ELSE IF pattern = <<>> THEN filename = <<>>
    ELSE MatchOne(Segments(filename), Segments(pattern))

(***************************************************************************)
(* Numbers and instants as text.                                           *)
(***************************************************************************)
DigitChars == <<"0", "1", "2", "3", "4", "5", "6", "7", "8", "9">>
DigitSet == {DigitChars[i] : i \in 1..10}

RECURSIVE DecimalDigits(_)
\* String(n) for a natural number n, as in a template literal.
DecimalDigits(n) ==
    IF n < 10 THEN <<DigitChars[n + 1]>>
    ELSE Append(DecimalDigits(n \div 10), DigitChars[(n % 10) + 1])

\* n written with exactly w digits (n < 10^w).
RECURSIVE Padded(_, _)
Padded(n, w) ==
    IF w = 0 THEN <<>>
    ELSE Append(Padded(n \div 10, w - 1), DigitChars[(n % 10) + 1])

\* The instants of the model are milliseconds after 2026-11-02T07:00:00.000Z,
\* all within the same hour.
\* Date.prototype.toISOString: YYYY-MM-DDTHH:mm:ss.sssZ, one character each.
ToISOString(t) ==
    <<"2", "0", "2", "6", "-", "1", "1", "-", "0", "2", "T", "0", "7", ":">>
    \o Padded((t \div 1000) \div 60, 2) \o <<":">>
    \o Padded((t \div 1000) % 60, 2) \o <<".">>
    \o Padded(t % 1000, 3) \o <<"Z">>

\* String.prototype.replace(/[^0-9]/g, '')
StripNonDigits(s) == SelectSeq(s, LAMBDA c : c \in DigitSet)

\* Date.now(): the milliseconds since the Unix epoch, here counted from the
\* first instant of the model (the offset is the same for every run).
DateNow(t) == t

(***************************************************************************)
(* JavaScript values that may be undefined.                                *)
(***************************************************************************)
Undefined == [t |-> "undefined", v |-> <<>>]
Str(s) == [t |-> "string", v |-> s]
\* x || undefined for a string x: the empty string is falsy.
OrUndefined(s) == IF s = <<>> THEN Undefined ELSE Str(s)

(***************************************************************************)
(* The inputs of a run.                                                    *)
(***************************************************************************)
A_TXT == <<"a", ".", "t", "x", "t">>
B_LOG == <<"b", ".", "l", "o", "g">>
SRC_DIR == <<"s", "r", "c">>

\* What repos.getContent lists for the root of the default branch.
RootItems ==
    { [path |-> A_TXT, type |-> "file"],
      [path |-> B_LOG, type |-> "file"],
      [path |-> SRC_DIR, type |-> "dir"] }

Injective(f) == \A i, j \in DOMAIN f : f[i] = f[j] => i = j

\* A directory listing names each entry once.
Listings ==
    UNION { {l \in [1..n -> RootItems] : Injective(l)} : n \in 0..MaxFiles }

EventNames == {"workflow_dispatch", "schedule", "push"}
Programs == {"snapshot", "adhoc"}
RunIds == {101, 102}

\* Raw values of the action_prompt input: missing, blank, given.
ActionPrompts == { <<>>, <<" ">>, <<" ", "G", "o">> }
\* Raw values of the ignore_patterns input.
IgnoreInputs == { <<>>, <<" ", "*", ".", "l", "o", "g", " ", ",", " ">> }
\* The .gitignore of the workspace: absent, or its text.
Absent == [t |-> "absent", v |-> <<>>]
GitignoreFiles ==
    { Absent,
      Str(<<"#", "x", "\n", "\n", "s", "r", "c", "/", "\n", "*", ".", "l", "o", "g">>) }
MemoryInputs == { <<>>, <<"m", "1">> }

\* The environment, event and inputs of a run of the snapshot pipeline.
SnapshotEnvs ==
    [ program : {"snapshot"},
      GITHUB_TOKEN : BOOLEAN,
      GITHUB_REPOSITORY : BOOLEAN,
      GITHUB_WORKSPACE : BOOLEAN,
      eventName : EventNames,
      runId : RunIds,
      action_prompt : ActionPrompts,
      ignore_patterns : IgnoreInputs,
      gitignore : GitignoreFiles,
      memory_id : MemoryInputs,
      debug : BOOLEAN ]

\* The same for the ad-hoc entry point, which reads three inputs only; what
\* it does not read is fixed.
AdhocEnvs ==
    [ program : {"adhoc"},
      GITHUB_TOKEN : {TRUE},
      GITHUB_REPOSITORY : {TRUE},
      GITHUB_WORKSPACE : {TRUE},
      eventName : {"workflow_dispatch"},
      runId : RunIds,
      action_prompt : ActionPrompts,
      ignore_patterns : {<<>>},
      gitignore : {Absent},
      memory_id : MemoryInputs,
      debug : BOOLEAN ]

Envs == SnapshotEnvs \cup AdhocEnvs

\* What one repos.getContent({path: filename}) call ends with: a rejection,
\* or a response whose data is a file (with its base64 content, or without
\* any), or something that is not a file.
FetchResults ==
    { [kind |-> "reject", type |-> "none", content |-> Undefined],
      [kind |-> "resolve", type |-> "file", content |-> Str(<<"aGk=">>)],
      [kind |-> "resolve", type |-> "file", content |-> Undefined],
      [kind |-> "resolve", type |-> "dir", content |-> Undefined] }

\* What the agent answers.
Responses == { <<"LGTM">> }

(***************************************************************************)
(* State.                                                                  *)
(***************************************************************************)
VARIABLES
    now,               \* the wall clock, in milliseconds
    ticks,             \* how often the clock has advanced
    repoContents,      \* the listing of the repository root
    env,               \* per run: environment, event and inputs
    pc,                \* per run: where the run is
    sessionId,         \* per run: the session identifier, once derived
    changedFiles,      \* per run: the enumerated files
    allIgnorePatterns, \* per run: the merged ignore patterns
    pending,           \* per run: indices of changedFiles whose fetch is in flight
    fetchReq,          \* per run: the paths requested from the host, in order
    fetchRes,          \* per run: the settled fetches, in order
    relevantCode,      \* per run: the content blocks
    relevantDiffs,     \* per run: the status entries
    agentCalls,        \* per run: the invokeAgent calls made
    agentRes,          \* per run: how the invokeAgent calls ended
    failed,            \* per run: the core.setFailed messages
    warnings,          \* per run: the core.warning messages
    errors,            \* per run: the core.error messages
    stdout,            \* per run: what console.info printed
    trace,             \* per run: the lines logged only when debug is on
    joined,            \* per run: whether Promise.all has resolved
    startedAt,         \* per run: the instants of the clock from which a session
                       \* identifier was derived
    hostRes            \* per run: how repos.get and the listing of the root ended

vars ==
    << now, ticks, repoContents, env, pc, sessionId, changedFiles,
       allIgnorePatterns, pending, fetchReq, fetchRes, relevantCode,
       relevantDiffs, agentCalls, agentRes, failed, warnings, errors, stdout,
       trace, joined, startedAt, hostRes >>

(***************************************************************************)
(* Pure parts of the pipeline.                                             *)
(***************************************************************************)
\* core.getInput('ignore_patterns').split(',').map(trim).filter(Boolean)
ParseIgnoreInput(raw) ==
    SelectSeq(Map(Split(raw, ","), Trim), LAMBDA p : p # <<>>)

\* The patterns of a .gitignore text: its trimmed lines, without the empty
\* ones and the comments; none when the file does not exist.
ParseGitignore(file) ==
    IF file.t = "absent" THEN <<>>
    ELSE SelectSeq(Map(Split(file.v, "\n"), Trim),
                   LAMBDA line : line # <<>> /\ ~StartsWith(line, "#"))

\* [...ignorePatterns, ...gitignorePatterns]
MergePatterns(ignorePatterns, gitignorePatterns) ==
    ignorePatterns \o gitignorePatterns

\* A variant that consults the first pattern only.
IsIgnored_FirstOnly(filename, patterns) ==
    patterns # <<>> /\ minimatch(filename, patterns[1])

\* ignorePatterns.some(pattern => minimatch(filename, pattern))
IsIgnored(filename, patterns) ==
    \E i \in 1..Len(patterns) : minimatch(filename, patterns[i])

\* repoContents.filter(item => item.type === 'file').map(...)
FilesOf(listing) ==
    LET files == SelectSeq(listing, LAMBDA item : item.type = "file")
    IN  [i \in 1..Len(files) |->
            [filename |-> files[i].path, status |-> <<"analyzed">>]]

\* Buffer.from(content, 'base64').toString('utf8')
Base64Decode(content) ==
    CASE content = <<"aGk=">> -> <<"h", "i">>
      [] content = <<>> -> <<>>

\* The token for the code fence, three grave accents (a character that a
\* TLA+ string cannot hold).
Fence == "<fence>"

\* The element pushed to relevantCode.
ContentBlock(filename, content) ==
    <<"Content of ">> \o filename \o <<"\n", Fence, "\n">> \o content
    \o <<"\n", Fence, "\n">>

\* The element pushed to relevantDiffs.
StatusEntry(filename, status) ==
    <<"File: ">> \o filename \o <<" (Status: ">> \o status \o <<")\n">>

\* A variant without the test of the type of the fetched item.
YieldsContent_AnyType(res) == res.kind = "resolve"

\* Whether the try block of processFile pushes a content block for this
\* response: no exception, a file, and a content that Buffer.from accepts.
YieldsContent(res) ==
    res.kind = "resolve" /\ res.type = "file" /\ res.content.t = "string"

\* Whether the try block of processFile ends in its catch clause: the request
\* was rejected, or Buffer.from threw on a content that is not a string.
FetchThrows(res) ==
    \/ res.kind = "reject"
    \/ (res.kind = "resolve" /\ res.type = "file" /\ res.content.t # "string")

\* A variant that assigns a new list instead of pushing onto the old one.
PushCode_Overwrite(code, filename, res) ==
    IF YieldsContent(res)
    THEN <<ContentBlock(filename, Base64Decode(res.content.v))>>
    ELSE code

\* A variant that puts the content block in front, as unshift would.
PushCode_Unshift(code, filename, res) ==
    IF YieldsContent(res)
    THEN <<ContentBlock(filename, Base64Decode(res.content.v))>> \o code
    ELSE code

\* relevantCode after the try block of processFile.
PushCode(code, filename, res) ==
    IF YieldsContent(res)
    THEN Append(code, ContentBlock(filename, Base64Decode(res.content.v)))
    ELSE code

\* A variant that pushes the status entry inside the try block.
PushDiff_InsideTry(diffs, file, res) ==
    IF res.kind = "reject" \/ (res.type = "file" /\ res.content.t # "string")
    THEN diffs
    ELSE Append(diffs, StatusEntry(file.filename, file.status))

\* relevantDiffs after processFile: the push follows the try statement, so
\* it does not depend on how the fetch ended.
PushDiff(diffs, file, res) ==
    Append(diffs, StatusEntry(file.filename, file.status))

\* A variant that writes the header of the content section in every prompt.
BuildPrompt_AlwaysHeader(code, diffs, actionPrompt) ==
    <<"Content of Affected Files:", "\n">> \o Flatten(code)
    \o <<"\nUse the files above to provide context on the changes made.\n">>
    \o <<"Changes:", "\n">> \o Flatten(diffs) \o <<"\n">> \o actionPrompt

\* The prompt of the snapshot pipeline.
BuildPrompt(code, diffs, actionPrompt) ==
    LET diffsPrompt == <<"Changes:", "\n">> \o Flatten(diffs)
    IN  IF Len(code) # 0
        THEN <<"Content of Affected Files:", "\n">> \o Flatten(code)
             \o <<"\nUse the files above to provide context on the changes made.\n">>
             \o diffsPrompt \o <<"\n">> \o actionPrompt
        ELSE diffsPrompt \o <<"\n">> \o actionPrompt

\* The files the report lists under "Files Processed".
FileSummaryLine(file) ==
    <<"- **">> \o file.filename \o <<"**: ">> \o file.status

RECURSIVE JoinLines(_)
\* Array.prototype.join('\n')
JoinLines(ls) ==
    IF ls = <<>> THEN <<>>
    ELSE IF Len(ls) = 1 THEN ls[1]
    ELSE ls[1] \o <<"\n">> \o JoinLines(Tail(ls))

formatMarkdownAnalysis(response, eventType, filesAnalyzed, diffsAnalyzed, files, t) ==
    LET fileSummary == JoinLines(Map(files, FileSummaryLine))
        eventTypeDisplay ==
            IF eventType = "workflow_dispatch"
            THEN "Workflow Dispatch" ELSE "Scheduled Run"
    IN  <<"## Analysis for ", eventTypeDisplay, " (Time: ">> \o ToISOString(t)
        \o <<")\n\n### Files Analyzed: ">> \o DecimalDigits(filesAnalyzed)
        \o <<"\n### Diffs Analyzed: ">> \o DecimalDigits(diffsAnalyzed)
        \o <<"\n\n### Files Processed:\n">> \o fileSummary
        \o <<"\n\n">> \o response

\* The output of the ad-hoc entry point.
AdhocOutput(response) == <<"## Bedrock Agent Response\n\n">> \o response

\* A derivation that keeps the date of the instant only.
ScheduleSessionId_DateOnly(t) ==
    <<"schedule-">> \o StripNonDigits(SubSeq(ToISOString(t), 1, 10))

\* Session identifiers.
WorkflowSessionId(runId) == <<"workflow-">> \o DecimalDigits(runId)
ScheduleSessionId(t) == <<"schedule-">> \o StripNonDigits(ToISOString(t))
AdhocSessionId(t) == <<"session-">> \o DecimalDigits(DateNow(t))

\* The messages given to core.setFailed.
MissingEnvMessage ==
    <<"Error: Missing required environment variables: GITHUB_TOKEN, GITHUB_REPOSITORY.">>
UnsupportedEventMessage(eventName) ==
    <<"Unsupported event type: ", eventName,
      ". This action only supports workflow_dispatch and schedule events.">>
CaughtMessage(t, message) ==
    <<"[">> \o ToISOString(t) \o <<"] Error: ", message>>

\* A variant that leaves the instruction untrimmed when debug is on.
ActionPrompt_RawWhenDebug(r) ==
    IF env[r].debug THEN env[r].action_prompt ELSE Trim(env[r].action_prompt)

\* core.getInput('action_prompt').trim() and
\* core.getInput('memory_id').trim() || undefined
ActionPrompt(r) == Trim(env[r].action_prompt)
MemoryId(r) == OrUndefined(Trim(env[r].memory_id))

(***************************************************************************)
(* Initial states.                                                         *)
(***************************************************************************)
\* A run that is not part of the scenario.
IdleEnv ==
    [ program |-> "adhoc", GITHUB_TOKEN |-> TRUE, GITHUB_REPOSITORY |-> TRUE,
      GITHUB_WORKSPACE |-> TRUE, eventName |-> "push", runId |-> 101,
      action_prompt |-> <<>>, ignore_patterns |-> <<>>, gitignore |-> Absent,
      memory_id |-> <<>>, debug |-> FALSE ]

InitRunState ==
    /\ sessionId = [r \in Runs |-> Undefined]
    /\ changedFiles = [r \in Runs |-> <<>>]
    /\ allIgnorePatterns = [r \in Runs |-> <<>>]
    /\ pending = [r \in Runs |-> {}]
    /\ fetchReq = [r \in Runs |-> <<>>]
    /\ fetchRes = [r \in Runs |-> <<>>]
    /\ relevantCode = [r \in Runs |-> <<>>]
    /\ relevantDiffs = [r \in Runs |-> <<>>]
    /\ agentCalls = [r \in Runs |-> <<>>]
    /\ agentRes = [r \in Runs |-> <<>>]
    /\ failed = [r \in Runs |-> <<>>]
    /\ warnings = [r \in Runs |-> <<>>]
    /\ errors = [r \in Runs |-> <<>>]
    /\ stdout = [r \in Runs |-> <<>>]
    /\ trace = [r \in Runs |-> <<>>]
    /\ joined = [r \in Runs |-> FALSE]
    /\ startedAt = [r \in Runs |-> <<>>]
    /\ hostRes = [r \in Runs |-> <<>>]

\* One run, with every combination of environment, event and inputs.
Init ==
    /\ now = 0
    /\ ticks = 0
    /\ repoContents \in Listings
    /\ \E e \in Envs :
          /\ e.runId = 101
          /\ env = [r \in Runs |-> IF r = "r1" THEN e ELSE IdleEnv]
    /\ pc = [r \in Runs |-> IF r = "r1" THEN "init" ELSE "off"]
    /\ InitRunState

(***************************************************************************)
(* The snapshot pipeline, src/index.js.                                    *)
(***************************************************************************)
Snapshot(r) == pc[r] = "init" /\ env[r].program = "snapshot"

\* A variant that swallows the failure.
SetFailedAndReturn_Swallowed(r, message) ==
    /\ UNCHANGED failed
    /\ pc' = [pc EXCEPT ![r] = "done"]

\* core.setFailed(message), after which main returns.
SetFailedAndReturn(r, message) ==
    /\ failed' = [failed EXCEPT ![r] = Append(@, message)]
    /\ pc' = [pc EXCEPT ![r] = "done"]

\* github.getOctokit(undefined) throws while the module is loaded: main is
\* never called and the process dies of the uncaught exception.
ModuleLoadThrows(r) ==
    /\ Snapshot(r)
    /\ ~env[r].GITHUB_TOKEN
    /\ pc' = [pc EXCEPT ![r] = "crashed"]
    /\ UNCHANGED << now, ticks, repoContents, env, sessionId, changedFiles,
                    allIgnorePatterns, pending, fetchReq, fetchRes,
                    relevantCode, relevantDiffs, agentCalls, agentRes, failed,
                    warnings, errors, stdout, trace, joined, startedAt,
                    hostRes >>

\* main: a required environment variable is missing.
EnvCheckFails(r) ==
    /\ Snapshot(r)
    /\ env[r].GITHUB_TOKEN
    /\ ~env[r].GITHUB_REPOSITORY
    /\ SetFailedAndReturn(r, MissingEnvMessage)
    /\ UNCHANGED << now, ticks, repoContents, env, sessionId, changedFiles,
                    allIgnorePatterns, pending, fetchReq, fetchRes,
                    relevantCode, relevantDiffs, agentCalls, agentRes,
                    warnings, errors, stdout, trace, joined, startedAt,
                    hostRes >>

EnvComplete(r) == env[r].GITHUB_TOKEN /\ env[r].GITHUB_REPOSITORY

\* main: the event is neither workflow_dispatch nor schedule.
UnsupportedEvent(r) ==
    /\ Snapshot(r)
    /\ EnvComplete(r)
    /\ env[r].eventName \notin {"workflow_dispatch", "schedule"}
    /\ SetFailedAndReturn(r, UnsupportedEventMessage(env[r].eventName))
    /\ UNCHANGED << now, ticks, repoContents, env, sessionId, changedFiles,
                    allIgnorePatterns, pending, fetchReq, fetchRes,
                    relevantCode, relevantDiffs, agentCalls, agentRes,
                    warnings, errors, stdout, trace, joined, startedAt,
                    hostRes >>

\* main, workflow_dispatch: derive the session and ask for the repository.
StartDispatch(r) ==
    /\ Snapshot(r)
    /\ EnvComplete(r)
    /\ env[r].eventName = "workflow_dispatch"
    /\ sessionId' = [sessionId EXCEPT ![r] = Str(WorkflowSessionId(env[r].runId))]
    /\ pc' = [pc EXCEPT ![r] = "repoGet"]
    /\ UNCHANGED << now, ticks, repoContents, env, changedFiles,
                    allIgnorePatterns, pending, fetchReq, fetchRes,
                    relevantCode, relevantDiffs, agentCalls, agentRes, failed,
                    warnings, errors, stdout, trace, joined, startedAt,
                    hostRes >>

\* main, schedule: derive the session and ask for the repository.
StartSchedule(r) ==
    /\ Snapshot(r)
    /\ EnvComplete(r)
    /\ env[r].eventName = "schedule"
    /\ sessionId' = [sessionId EXCEPT ![r] = Str(ScheduleSessionId(now))]
    /\ startedAt' = [startedAt EXCEPT ![r] = <<now>>]
    /\ pc' = [pc EXCEPT ![r] = "repoGet"]
    /\ UNCHANGED << now, ticks, repoContents, env, changedFiles,
                    allIgnorePatterns, pending, fetchReq, fetchRes,
                    relevantCode, relevantDiffs, agentCalls, agentRes, failed,
                    warnings, errors, stdout, trace, joined, hostRes >>

\* octokit.rest.repos.get settles: on success main asks for the listing of
\* the root, on failure the catch clause of main reports it.
RepoGetSettles(r) ==
    /\ pc[r] = "repoGet"
    /\ \/ /\ hostRes' = [hostRes EXCEPT ![r] = Append(@, "resolve")]
          /\ pc' = [pc EXCEPT ![r] = "getContent"]
          /\ UNCHANGED failed
       \/ /\ hostRes' = [hostRes EXCEPT ![r] = Append(@, "reject")]
          /\ SetFailedAndReturn(r, CaughtMessage(now, "Not Found"))
    /\ UNCHANGED << now, ticks, repoContents, env, sessionId, changedFiles,
                    allIgnorePatterns, pending, fetchReq, fetchRes,
                    relevantCode, relevantDiffs, agentCalls, agentRes,
                    warnings, errors, stdout, trace, joined, startedAt >>

\* A variant of the fan-out that asks for every file, ignored or not.
NotIgnored_EveryFile(files, patterns) == 1..Len(files)

\* The indices of the files whose content processFile asks for.
NotIgnored(files, patterns) ==
    {i \in 1..Len(files) : ~IsIgnored(files[i].filename, patterns)}

RECURSIVE PathsOf(_, _, _)
\* The filenames of files[i..], for the indices in keep.
PathsOf(files, keep, i) ==
    IF i > Len(files) THEN <<>>
    ELSE (IF i \in keep THEN <<files[i].filename>> ELSE <<>>)
         \o PathsOf(files, keep, i + 1)

\* octokit.rest.repos.getContent for the root settles.  On success main keeps
\* the files, merges the ignore patterns and starts processFile for every
\* file: each call runs up to its await, that is, it checks the patterns and
\* sends its request.
GetContentSettles(r) ==
    /\ pc[r] = "getContent"
    /\ \/ /\ hostRes' = [hostRes EXCEPT ![r] = Append(@, "reject")]
          /\ SetFailedAndReturn(r, CaughtMessage(now, "Server Error"))
          /\ UNCHANGED << changedFiles, allIgnorePatterns, pending, fetchReq,
                          trace >>
       \/ /\ hostRes' = [hostRes EXCEPT ![r] = Append(@, "resolve")]
          /\ ~env[r].GITHUB_WORKSPACE
          \* path.join(undefined, '.gitignore') throws a TypeError
          /\ changedFiles' = [changedFiles EXCEPT ![r] = FilesOf(repoContents)]
          /\ SetFailedAndReturn(r, CaughtMessage(now, "The path argument must be of type string"))
          /\ UNCHANGED << allIgnorePatterns, pending, fetchReq, trace >>
       \/ /\ hostRes' = [hostRes EXCEPT ![r] = Append(@, "resolve")]
          /\ env[r].GITHUB_WORKSPACE
          /\ LET files == FilesOf(repoContents)
                 patterns == MergePatterns(ParseIgnoreInput(env[r].ignore_patterns),
                                           ParseGitignore(env[r].gitignore))
                 keep == NotIgnored(files, patterns)
             IN  /\ changedFiles' = [changedFiles EXCEPT ![r] = files]
                 /\ allIgnorePatterns' = [allIgnorePatterns EXCEPT ![r] = patterns]
                 /\ trace' = [trace EXCEPT ![r] =
                        IF env[r].debug /\ env[r].gitignore.t # "absent"
                        THEN Append(@, "Loaded .gitignore patterns") ELSE @]
                 /\ pending' = [pending EXCEPT ![r] = keep]
                 /\ fetchReq' = [fetchReq EXCEPT ![r] = PathsOf(files, keep, 1)]
          /\ pc' = [pc EXCEPT ![r] = "fanout"]
          /\ UNCHANGED failed
    /\ UNCHANGED << now, ticks, repoContents, env, sessionId, fetchRes,
                    relevantCode, relevantDiffs, agentCalls, agentRes,
                    warnings, errors, stdout, joined, startedAt >>

\* The request of processFile for changedFiles[i] settles with res: the rest
\* of processFile runs.
FetchSettles(r, i, res) ==
    /\ pc[r] = "fanout"
    /\ i \in pending[r]
    /\ LET file == changedFiles[r][i]
       IN  /\ relevantCode' = [relevantCode EXCEPT ![r] =
                                  PushCode(@, file.filename, res)]
           /\ errors' = [errors EXCEPT ![r] =
                            IF FetchThrows(res) THEN Append(@, file.filename) ELSE @]
           /\ relevantDiffs' = [relevantDiffs EXCEPT ![r] = PushDiff(@, file, res)]
           /\ fetchRes' = [fetchRes EXCEPT ![r] =
                              Append(@, [filename |-> file.filename, res |-> res])]
    /\ pending' = [pending EXCEPT ![r] = @ \ {i}]
    /\ UNCHANGED << now, ticks, repoContents, env, pc, sessionId, changedFiles,
                    allIgnorePatterns, fetchReq, agentCalls, agentRes, failed,
                    warnings, stdout, trace, joined, startedAt, hostRes >>

\* A variant that tests the content list only.
NothingToAnalyze_ContentOnly(code, diffs) == Len(code) = 0

\* A variant that tests the content list only, and for the wrong outcome.
NothingToAnalyze_Inverted(code, diffs) == Len(diffs) = 0 /\ Len(code) # 0

\* The condition under which main warns and returns without a prompt.
NothingToAnalyze(code, diffs) == Len(diffs) = 0 /\ Len(code) = 0

\* A variant that invokes the agent a second time, as a retry would.
InvokeAgent_Twice(r, session, prompt) ==
    agentCalls' = [agentCalls EXCEPT ![r] =
        @ \o << [sessionId |-> session, prompt |-> prompt, memoryId |-> MemoryId(r)],
                [sessionId |-> session, prompt |-> prompt, memoryId |-> MemoryId(r)] >>]

\* agentWrapper.invokeAgent(agentId, agentAliasId, sessionId, prompt, memoryId);
\* the agent and its alias are the same for all runs.
InvokeAgent(r, session, prompt) ==
    agentCalls' = [agentCalls EXCEPT ![r] =
        Append(@, [sessionId |-> session, prompt |-> prompt,
                   memoryId |-> MemoryId(r)])]

\* A join that resolves with the first task that settles, as Promise.race.
AllSettled_FirstSettled(r) == pending[r] # NotIgnored(changedFiles[r], allIgnorePatterns[r])

\* Promise.all(changedFiles.map(...)): every processFile call has returned.
\* processFile catches what its fetch throws, so none of them rejects.
AllSettled(r) == pending[r] = {}

\* Promise.all resolves once no fetch is in flight: main warns and returns
\* when nothing was collected, and otherwise builds the prompt and invokes
\* the agent.
Join(r) ==
    /\ pc[r] = "fanout"
    /\ AllSettled(r)
    /\ joined' = [joined EXCEPT ![r] = TRUE]
    /\ IF NothingToAnalyze(relevantCode[r], relevantDiffs[r])
       THEN /\ warnings' = [warnings EXCEPT ![r] =
                   Append(@, "No relevant files or diffs found for analysis.")]
            /\ pc' = [pc EXCEPT ![r] = "done"]
            /\ UNCHANGED << agentCalls, trace >>
       ELSE /\ InvokeAgent(r, sessionId[r],
                            BuildPrompt(relevantCode[r], relevantDiffs[r],
                                        ActionPrompt(r)))
            /\ trace' = [trace EXCEPT ![r] =
                   IF env[r].debug
                   THEN Append(@, "Generated prompt for Bedrock Agent") ELSE @]
            /\ pc' = [pc EXCEPT ![r] = "agent"]
            /\ UNCHANGED warnings
    /\ UNCHANGED << now, ticks, repoContents, env, sessionId, changedFiles,
                    allIgnorePatterns, pending, fetchReq, fetchRes,
                    relevantCode, relevantDiffs, agentRes, failed, errors,
                    stdout, startedAt, hostRes >>

\* invokeAgent settles: main prints the report, or its catch clause reports
\* the failure.
AgentSettles(r) ==
    /\ pc[r] = "agent"
    /\ env[r].program = "snapshot"
    /\ \/ \E response \in Responses :
             /\ agentRes' = [agentRes EXCEPT ![r] = Append(@, "resolve")]
             /\ trace' = [trace EXCEPT ![r] =
                    IF env[r].debug
                    THEN Append(@, "Bedrock Agent response") ELSE @]
             /\ stdout' = [stdout EXCEPT ![r] =
                    Append(@, formatMarkdownAnalysis(response, env[r].eventName,
                                  Len(relevantCode[r]), Len(relevantDiffs[r]),
                                  changedFiles[r], now))]
             /\ pc' = [pc EXCEPT ![r] = "done"]
             /\ UNCHANGED failed
       \/ /\ agentRes' = [agentRes EXCEPT ![r] = Append(@, "reject")]
          /\ SetFailedAndReturn(r, CaughtMessage(now, "agent invocation failed"))
          /\ UNCHANGED << stdout, trace >>
    /\ UNCHANGED << now, ticks, repoContents, env, sessionId, changedFiles,
                    allIgnorePatterns, pending, fetchReq, fetchRes,
                    relevantCode, relevantDiffs, agentCalls, warnings, errors,
                    joined, startedAt, hostRes >>

(***************************************************************************)
(* The ad-hoc entry point, src/unnamed/part_000.                           *)
(***************************************************************************)
\* main: read the inputs, derive the session and invoke the agent with the
\* instruction as the prompt.
AdhocStart(r) ==
    /\ pc[r] = "init"
    /\ env[r].program = "adhoc"
    /\ sessionId' = [sessionId EXCEPT ![r] = Str(AdhocSessionId(now))]
    /\ trace' = [trace EXCEPT ![r] =
           IF env[r].debug THEN @ \o <<"Using prompt", "Session ID">> ELSE @]
    /\ InvokeAgent(r, Str(AdhocSessionId(now)), ActionPrompt(r))
    /\ startedAt' = [startedAt EXCEPT ![r] = <<now>>]
    /\ pc' = [pc EXCEPT ![r] = "agent"]
    /\ UNCHANGED << now, ticks, repoContents, env, changedFiles,
                    allIgnorePatterns, pending, fetchReq, fetchRes,
                    relevantCode, relevantDiffs, agentRes, failed, warnings,
                    errors, stdout, joined, hostRes >>

\* invokeAgent settles: main prints the response, or its catch clause
\* reports the failure.
AdhocAgentSettles(r) ==
    /\ pc[r] = "agent"
    /\ env[r].program = "adhoc"
    /\ \/ \E response \in Responses :
             /\ agentRes' = [agentRes EXCEPT ![r] = Append(@, "resolve")]
             /\ stdout' = [stdout EXCEPT ![r] = Append(@, AdhocOutput(response))]
             /\ pc' = [pc EXCEPT ![r] = "done"]
             /\ UNCHANGED failed
       \/ /\ agentRes' = [agentRes EXCEPT ![r] = Append(@, "reject")]
          /\ SetFailedAndReturn(r, CaughtMessage(now, "agent invocation failed"))
          /\ UNCHANGED stdout
    /\ UNCHANGED << now, ticks, repoContents, env, sessionId, changedFiles,
                    allIgnorePatterns, pending, fetchReq, fetchRes,
                    relevantCode, relevantDiffs, agentCalls, warnings, errors,
                    trace, joined, startedAt, hostRes >>

(***************************************************************************)
(* The environment and the specifications.                                 *)
(***************************************************************************)
\* Time passes: a millisecond, or a second.
Tick ==
    /\ ticks < MaxTicks
    /\ \E d \in {1, 1000} : now' = now + d
    /\ ticks' = ticks + 1
    /\ UNCHANGED << repoContents, env, pc, sessionId, changedFiles,
                    allIgnorePatterns, pending, fetchReq, fetchRes,
                    relevantCode, relevantDiffs, agentCalls, agentRes, failed,
                    warnings, errors, stdout, trace, joined, startedAt,
                    hostRes >>

\* The steps of run r.
RunStep(r) ==
    \/ ModuleLoadThrows(r)
    \/ EnvCheckFails(r)
    \/ UnsupportedEvent(r)
    \/ StartDispatch(r)
    \/ StartSchedule(r)
    \/ RepoGetSettles(r)
    \/ GetContentSettles(r)
    \/ \E i \in 1..MaxFiles + 1, res \in FetchResults : FetchSettles(r, i, res)
    \/ Join(r)
    \/ AgentSettles(r)
    \/ AdhocStart(r)
    \/ AdhocAgentSettles(r)

Next == Tick \/ \E r \in Runs : RunStep(r)

Spec == Init /\ [][Next]_vars

\* Several runs at once, on one repository with one file, each with the
\* instruction given and no ignore rule, memory or debug output.
RunsEnvs ==
    {e \in Envs : /\ e.action_prompt = <<" ", "G", "o">>
                  /\ e.ignore_patterns = <<>>
                  /\ e.gitignore = Absent
                  /\ e.memory_id = <<>>
                  /\ ~e.debug
                  /\ e.GITHUB_WORKSPACE}

InitRuns ==
    /\ now = 0
    /\ ticks = 0
    /\ repoContents = <<[path |-> A_TXT, type |-> "file"]>>
    /\ env \in [Runs -> RunsEnvs]
    /\ pc = [r \in Runs |-> "init"]
    /\ InitRunState

SpecRuns == InitRuns /\ [][Next]_vars

\* Every request that a run awaits is answered or rejected, and the event
\* loop runs the continuation: a run that can take a step takes one.
FairSpec == Spec /\ \A r \in Runs : WF_vars(RunStep(r))

\* One run whose instruction is the usual one or one that quotes the header
\* of the content section, with no ignore rule, memory or debug output.
HeaderInstruction == <<"Content of Affected Files:", "?">>

PromptEnvs ==
    {[e EXCEPT !.action_prompt = p] :
        e \in {x \in RunsEnvs : x.runId = 101},
        p \in {<<" ", "G", "o">>, HeaderInstruction}}

InitPrompt ==
    /\ now = 0
    /\ ticks = 0
    /\ repoContents \in Listings
    /\ \E e \in PromptEnvs :
          env = [r \in Runs |-> IF r = "r1" THEN e ELSE IdleEnv]
    /\ pc = [r \in Runs |-> IF r = "r1" THEN "init" ELSE "off"]
    /\ InitRunState

SpecPrompt == InitPrompt /\ [][Next]_vars

\* One run with the caller pattern *.md and a .gitignore that names two
\* directories between a comment and a blank line, on a repository whose root
\* holds Markdown files, a text file and the two directories.
README_MD == <<"R", "E", "A", "D", "M", "E", ".", "m", "d">>
NOTES_MD == <<".", "n", "o", "t", "e", "s", ".", "m", "d">>
NODE_MODULES == <<"n", "o", "d", "e", "_", "m", "o", "d", "u", "l", "e", "s">>
DIST == <<"d", "i", "s", "t">>

FilterItems ==
    { [path |-> README_MD, type |-> "file"],
      [path |-> NOTES_MD, type |-> "file"],
      [path |-> A_TXT, type |-> "file"],
      [path |-> NODE_MODULES, type |-> "dir"],
      [path |-> DIST, type |-> "dir"] }

FilterListings ==
    UNION { {l \in [1..n -> FilterItems] : Injective(l)} : n \in 0..MaxFiles }

MarkdownInput == <<"*", ".", "m", "d">>
DirectoriesGitignore ==
    Str(<<"n", "o", "d", "e", "_", "m", "o", "d", "u", "l", "e", "s", "/">> \o <<"\n">>
        \o <<"#", " ", "c", "o", "m", "m", "e", "n", "t">> \o <<"\n", "\n">>
        \o <<"d", "i", "s", "t", "/">>)

FilterEnvs ==
    {IF e.program = "snapshot"
     THEN [e EXCEPT !.ignore_patterns = MarkdownInput,
                    !.gitignore = DirectoriesGitignore]
     ELSE e : e \in {x \in RunsEnvs : x.runId = 101}}

InitFilter ==
    /\ now = 0
    /\ ticks = 0
    /\ repoContents \in FilterListings
    /\ \E e \in FilterEnvs :
          env = [r \in Runs |-> IF r = "r1" THEN e ELSE IdleEnv]
    /\ pc = [r \in Runs |-> IF r = "r1" THEN "init" ELSE "off"]
    /\ InitRunState

SpecFilter == InitFilter /\ [][Next]_vars

\* Two runs on one repository with two files, with the same environment,
\* event and inputs, except that the second may have the debug flag set.
PairEnvs ==
    {e \in Envs : /\ e.action_prompt = <<" ", "G", "o">>
                  /\ e.ignore_patterns = <<>>
                  /\ e.memory_id = <<"m", "1">>
                  /\ e.runId = 101
                  /\ ~e.debug
                  /\ e.GITHUB_WORKSPACE}

InitPair ==
    /\ now = 0
    /\ ticks = 0
    /\ repoContents = << [path |-> A_TXT, type |-> "file"],
                         [path |-> B_LOG, type |-> "file"] >>
    /\ \E e \in PairEnvs, d \in BOOLEAN :
          env = [r \in Runs |-> IF r = "r1" THEN e ELSE [e EXCEPT !.debug = d]]
    /\ pc = [r \in Runs |-> "init"]
    /\ InitRunState

SpecPair == InitPair /\ [][Next]_vars

(***************************************************************************)
(* Vocabulary of the properties.                                           *)
(***************************************************************************)
\* needle occurs in hay as a run of consecutive tokens.
Contains(hay, needle) ==
    \E k \in 0..(Len(hay) - Len(needle)) :
        SubSeq(hay, k + 1, k + Len(needle)) = needle

\* text starts with prefix.
HasPrefix(text, prefix) ==
    Len(text) >= Len(prefix) /\ SubSeq(text, 1, Len(prefix)) = prefix

\* The content blocks and the status entries of a path.
BlocksOf(r, path) ==
    {j \in 1..Len(relevantCode[r]) :
        HasPrefix(relevantCode[r][j], <<"Content of ">> \o path \o <<"\n">>)}
EntriesOf(r, path) ==
    {j \in 1..Len(relevantDiffs[r]) :
        HasPrefix(relevantDiffs[r][j], <<"File: ">> \o path \o <<" (Status: ">>)}

\* The enumerated files of run r that match no pattern of its rule set.
Surviving(r) ==
    {i \in 1..Len(changedFiles[r]) :
        \A k \in 1..Len(allIgnorePatterns[r]) :
            ~minimatch(changedFiles[r][i].filename, allIgnorePatterns[r][k])}

\* The settled fetches of a path.
ResultsOf(r, path) ==
    {k \in 1..Len(fetchRes[r]) : fetchRes[r][k].filename = path}

SnapshotRuns == {r \in Runs : env[r].program = "snapshot"}

\* C1: once the join is reached, every enumerated file that matches no
\* ignore pattern has exactly one status entry, whatever the order in which
\* the fetches settled and however they ended, and the status list is as
\* long as the set of those files.
C1_OneStatusEntryPerSurvivingFile ==
    \A r \in SnapshotRuns :
        joined[r] =>
            /\ \A i \in Surviving(r) :
                   Cardinality(EntriesOf(r, changedFiles[r][i].filename)) = 1
            /\ Len(relevantDiffs[r]) = Cardinality(Surviving(r))

\* Two surviving files, the second of which settled first, one fetch
\* rejected and one successful, and the join reached.
C1_Witness ==
    \E r \in SnapshotRuns :
        /\ joined[r]
        /\ Cardinality(Surviving(r)) = 2
        /\ Len(fetchRes[r]) = 2
        /\ fetchRes[r][1].filename = changedFiles[r][2].filename
        /\ fetchRes[r][1].res.kind = "reject"
        /\ fetchRes[r][2].res.kind = "resolve"

\* C2: once the join is reached, a surviving file has a content block
\* exactly when its fetch was answered, the answer is of type 'file' and its
\* content could be decoded; in every case the file has its status entry.
C2_ContentBlockIffFileFetched ==
    \A r \in SnapshotRuns :
        joined[r] =>
            \A i \in Surviving(r) :
                LET path == changedFiles[r][i].filename
                IN  /\ Cardinality(ResultsOf(r, path)) = 1
                    /\ \A k \in ResultsOf(r, path) :
                           (BlocksOf(r, path) # {}) <=>
                               /\ fetchRes[r][k].res.kind = "resolve"
                               /\ fetchRes[r][k].res.type = "file"
                               /\ fetchRes[r][k].res.content.t = "string"
                    /\ EntriesOf(r, path) # {}

\* The join is reached with one file whose fetch gave a file and a content
\* block, and one file whose fetch gave a directory and no content block.
C2_Witness ==
    \E r \in SnapshotRuns :
        /\ joined[r]
        /\ Len(fetchRes[r]) = 2
        /\ \E k \in 1..2 : /\ fetchRes[r][k].res.type = "file"
                           /\ BlocksOf(r, fetchRes[r][k].filename) # {}
        /\ \E k \in 1..2 : /\ fetchRes[r][k].res.type = "dir"
                           /\ BlocksOf(r, fetchRes[r][k].filename) = {}
                           /\ EntriesOf(r, fetchRes[r][k].filename) # {}

\* C4: when both lists are empty after the join, the run has issued the
\* warning and has ended, without an agent invocation, a report or a fatal
\* signal.
C4_EmptyContextWarnsAndEnds ==
    \A r \in SnapshotRuns :
        (joined[r] /\ Len(relevantCode[r]) = 0 /\ Len(relevantDiffs[r]) = 0) =>
            /\ pc[r] = "done"
            /\ Len(warnings[r]) = 1
            /\ agentCalls[r] = <<>>
            /\ agentRes[r] = <<>>
            /\ stdout[r] = <<>>
            /\ failed[r] = <<>>

\* The join is reached with files enumerated, all of them ignored.
C4_Witness ==
    \E r \in SnapshotRuns :
        /\ joined[r]
        /\ Len(changedFiles[r]) > 0
        /\ Surviving(r) = {}
        /\ Len(warnings[r]) = 1

\* C3: fetch failures neither raise the fatal signal nor stop the run.  A
\* run whose fan-out has a surviving file ends after exactly one agent
\* invocation, and when that invocation succeeds the report is printed and
\* no fatal signal is raised, however the fetches ended; a fatal signal in a
\* run that reached its fan-out comes from the agent invocation alone.
C3_FetchFailuresDoNotStopRun ==
    /\ [](\A r \in SnapshotRuns :
            (pc[r] = "fanout" \/ joined[r]) /\ failed[r] # <<>>
                => agentRes[r] = <<"reject">>)
    /\ \A r \in Runs :
          (env[r].program = "snapshot" /\ pc[r] = "fanout" /\ Surviving(r) # {})
              ~> /\ pc[r] = "done"
                 /\ Len(agentCalls[r]) = 1
                 /\ (agentRes[r] = <<"resolve">> =>
                        Len(stdout[r]) = 1 /\ failed[r] = <<>>)

\* A run in which every fetch failed, and which invoked the agent and
\* printed the report.
C3_Witness ==
    \E r \in SnapshotRuns :
        /\ pc[r] = "done"
        /\ Len(fetchRes[r]) = 2
        /\ \A k \in 1..2 : fetchRes[r][k].res.kind = "reject"
        /\ Len(errors[r]) = 2
        /\ relevantCode[r] = <<>>
        /\ agentRes[r] = <<"resolve">>
        /\ Len(stdout[r]) = 1
        /\ failed[r] = <<>>

\* Whether the run ended between the acceptance of its event and the join:
\* the enumeration of the files failed.
EnumerationFailed(r) ==
    /\ env[r].program = "snapshot"
    /\ sessionId[r] # Undefined
    /\ pc[r] = "done"
    /\ ~joined[r]

\* C6: the fatal signal and the report exclude each other.  A run raises at
\* most one fatal signal; a run whose agent invocation or file enumeration
\* failed has ended with exactly one fatal signal, which carries a message,
\* and has printed nothing; a run that printed a report raised no fatal
\* signal.
C6_FatalExcludesReport ==
    \A r \in Runs :
        /\ Len(failed[r]) <= 1
        /\ ~(failed[r] # <<>> /\ stdout[r] # <<>>)
        /\ ("reject" \in {agentRes[r][k] : k \in 1..Len(agentRes[r])}
               \/ EnumerationFailed(r))
              => /\ pc[r] = "done"
                 /\ Len(failed[r]) = 1
                 /\ failed[r][1] # <<>>
                 /\ stdout[r] = <<>>

\* The agent invocation failed in a run that had collected a content block
\* and a status entry: the run raised the fatal signal and printed nothing.
C6_Witness ==
    \E r \in SnapshotRuns :
        /\ agentRes[r] = <<"reject">>
        /\ Len(relevantCode[r]) = 1
        /\ Len(relevantDiffs[r]) = 2
        /\ Len(failed[r]) = 1
        /\ stdout[r] = <<>>

\* The enumerated files of run r that some pattern of its rule set matches,
\* once the rule set is built.
IgnoredFiles(r) ==
    IF pc[r] = "fanout" \/ joined[r]
    THEN (1..Len(changedFiles[r])) \ Surviving(r)
    ELSE {}

\* C5: a file that the ignore rule set matches has no content block and no
\* status entry, is named by no entry of a prompt sent to the agent, and is
\* not in the file list of the report.
C5_IgnoredFileAbsentEverywhere ==
    \A r \in SnapshotRuns :
        \A i \in IgnoredFiles(r) :
            LET file == changedFiles[r][i]
            IN  /\ BlocksOf(r, file.filename) = {}
                /\ EntriesOf(r, file.filename) = {}
                /\ \A k \in 1..Len(agentCalls[r]) :
                       /\ ~Contains(agentCalls[r][k].prompt,
                                    <<"File: ">> \o file.filename)
                       /\ ~Contains(agentCalls[r][k].prompt,
                                    <<"Content of ">> \o file.filename)
                /\ \A k \in 1..Len(stdout[r]) :
                       ~Contains(stdout[r][k], FileSummaryLine(file))

\* C7: a run whose instruction is missing or blank never invokes the agent,
\* and when it has ended it has raised the fatal signal.
C7_EmptyInstructionAborts ==
    \A r \in Runs :
        (pc[r] # "off" /\ ActionPrompt(r) = <<>>) =>
            /\ agentCalls[r] = <<>>
            /\ pc[r] = "done" => Len(failed[r]) = 1

SupportedEvent(r) == env[r].eventName \in {"workflow_dispatch", "schedule"}

\* C8: a run of the snapshot pipeline on an unsupported event ends at once
\* with one fatal signal that carries a message; it enumerates no file,
\* fetches none, does not invoke the agent and prints no report.
C8_UnsupportedEventIsFatal ==
    \A r \in SnapshotRuns :
        (~SupportedEvent(r) /\ pc[r] # "init") =>
            /\ Len(failed[r]) = 1
            /\ failed[r][1] # <<>>
            /\ pc[r] \notin {"repoGet", "getContent", "fanout", "agent"}
            /\ changedFiles[r] = <<>>
            /\ fetchReq[r] = <<>>
            /\ agentCalls[r] = <<>>
            /\ stdout[r] = <<>>

\* C9: a run of the snapshot pipeline without GITHUB_TOKEN or without
\* GITHUB_REPOSITORY ends at once with one fatal signal that carries a
\* message, before any enumeration, fetch or agent invocation.
C9_MissingEnvironmentIsFatal ==
    \A r \in SnapshotRuns :
        (~EnvComplete(r) /\ pc[r] # "init") =>
            /\ Len(failed[r]) = 1
            /\ failed[r][1] # <<>>
            /\ pc[r] \notin {"repoGet", "getContent", "fanout", "agent"}
            /\ changedFiles[r] = <<>>
            /\ fetchReq[r] = <<>>
            /\ agentCalls[r] = <<>>

\* C10: the session identifier that a run passes to the agent is the one it
\* derived at its start, and two distinct runs never pass the same one.
C10_SessionIdsDifferAcrossRuns ==
    /\ \A r \in Runs :
           \A k \in 1..Len(agentCalls[r]) :
               agentCalls[r][k].sessionId = sessionId[r]
    /\ \A r1, r2 \in Runs :
           (r1 # r2 /\ agentCalls[r1] # <<>> /\ agentCalls[r2] # <<>>) =>
               agentCalls[r1][1].sessionId # agentCalls[r2][1].sessionId

RECURSIVE NumberOf(_)
\* The natural number that a sequence of decimal digits writes.
NumberOf(digits) ==
    IF digits = <<>> THEN 0
    ELSE 10 * NumberOf(SubSeq(digits, 1, Len(digits) - 1))
         + (CHOOSE d \in 0..9 : DigitChars[d + 1] = digits[Len(digits)])

\* The runs of the snapshot pipeline on a given event that have derived
\* their session identifier.
DerivedOn(eventName) ==
    {r \in SnapshotRuns : env[r].eventName = eventName /\ sessionId[r].t = "string"}

\* The whole second of the instant from which run r derived its identifier.
SecondOf(r) == startedAt[r][1] \div 1000

\* C11: on workflow_dispatch the session identifier is "workflow-" followed
\* by the run identifier of the host, so that equal run identifiers give
\* equal session identifiers and distinct ones give distinct ones; on
\* schedule it is "schedule-" followed by the seventeen digits of the ISO
\* instant, and two derivations at different whole seconds give different
\* identifiers.
C11_SessionIdDerivation ==
    /\ \A r \in DerivedOn("workflow_dispatch") :
           /\ Head(sessionId[r].v) = "workflow-"
           /\ \A i \in 2..Len(sessionId[r].v) : sessionId[r].v[i] \in DigitSet
           /\ NumberOf(Tail(sessionId[r].v)) = env[r].runId
    /\ \A r1, r2 \in DerivedOn("workflow_dispatch") :
           (env[r1].runId = env[r2].runId) <=> (sessionId[r1] = sessionId[r2])
    /\ \A r \in DerivedOn("schedule") :
           /\ Head(sessionId[r].v) = "schedule-"
           /\ Len(sessionId[r].v) = 18
           /\ \A i \in 2..18 : sessionId[r].v[i] \in DigitSet
    /\ \A r1, r2 \in DerivedOn("schedule") :
           (SecondOf(r1) # SecondOf(r2)) => (sessionId[r1] # sessionId[r2])

\* Two scheduled runs that derived their identifiers a second apart.
C11_Witness ==
    \E r1, r2 \in DerivedOn("schedule") :
        /\ SecondOf(r1) # SecondOf(r2)
        /\ sessionId[r1] # sessionId[r2]

\* The header of the content section of the prompt.
ContentHeader == <<"Content of Affected Files:">>

\* The prompts that run r gave to the agent.
PromptsOf(r) == {agentCalls[r][k].prompt : k \in 1..Len(agentCalls[r])}

\* C12 as stated: a prompt contains the header of the content section
\* exactly when the content list is non-empty, and with an empty content
\* list it begins with "Changes:".
C12_HeaderIffContent ==
    \A r \in SnapshotRuns :
        \A prompt \in PromptsOf(r) :
            /\ (relevantCode[r] # <<>>) <=> Contains(prompt, ContentHeader)
            /\ (relevantCode[r] = <<>>) => HasPrefix(prompt, <<"Changes:">>)

\* C12: a prompt begins with the header of the content section exactly when
\* the content list is non-empty; with an empty content list it begins with
\* "Changes:" and contains the header only where a status entry or the
\* instruction itself contains it.
C12_HeaderLeadsIffContent ==
    \A r \in SnapshotRuns :
        \A prompt \in PromptsOf(r) :
            /\ (relevantCode[r] # <<>>) <=> HasPrefix(prompt, ContentHeader)
            /\ (relevantCode[r] = <<>>) =>
                   /\ HasPrefix(prompt, <<"Changes:">>)
                   /\ Contains(prompt, ContentHeader) =>
                          \/ Contains(ActionPrompt(r), ContentHeader)
                          \/ Contains(Flatten(relevantDiffs[r]), ContentHeader)

\* A prompt built from an empty content list, a status entry and an
\* instruction that quotes the header.
C12_Witness ==
    \E r \in SnapshotRuns :
        \E prompt \in PromptsOf(r) :
            /\ relevantCode[r] = <<>>
            /\ relevantDiffs[r] # <<>>
            /\ Contains(ActionPrompt(r), ContentHeader)
            /\ Contains(prompt, ContentHeader)
            /\ HasPrefix(prompt, <<"Changes:">>)

\* The runs of the snapshot pipeline that have started processFile for
\* their files.
FannedOut == {r \in SnapshotRuns : pc[r] = "fanout" \/ joined[r]}

\* Whether run r asked the host for the content of path.
Fetched(r, path) == \E k \in 1..Len(fetchReq[r]) : fetchReq[r][k] = path

\* The orderings of a list of patterns.
Reorderings(patterns) ==
    {[i \in DOMAIN patterns |-> patterns[f[i]]] : f \in Permutations(DOMAIN patterns)}

\* C13: a file is left out exactly when it matches at least one pattern of
\* the merged rule set; the decision is the same for every ordering of the
\* patterns, with any pattern repeated, and with the patterns of the two
\* sources merged the other way round, and an empty rule set leaves out no
\* file.
C13_IgnoredIffSomePatternMatches ==
    \A r \in FannedOut :
        LET rules == allIgnorePatterns[r]
            fromInput == ParseIgnoreInput(env[r].ignore_patterns)
            fromFile == ParseGitignore(env[r].gitignore)
        IN  \A i \in 1..Len(changedFiles[r]) :
                LET path == changedFiles[r][i].filename
                    ignored == ~Fetched(r, path)
                IN  /\ ignored <=> \E k \in 1..Len(rules) : minimatch(path, rules[k])
                    /\ \A q \in Reorderings(rules) : IsIgnored(path, q) <=> ignored
                    /\ \A k \in 1..Len(rules) :
                           IsIgnored(path, Append(rules, rules[k])) <=> ignored
                    /\ IsIgnored(path, MergePatterns(fromFile, fromInput)) <=> ignored
                    /\ (rules = <<>>) => ~ignored

\* A rule set with patterns of both sources, under which one file is left
\* out because of a pattern that is not the first, and another is fetched.
C13_Witness ==
    \E r \in FannedOut :
        /\ ParseIgnoreInput(env[r].ignore_patterns) # <<>>
        /\ ParseGitignore(env[r].gitignore) # <<>>
        /\ \E i, j \in 1..Len(changedFiles[r]) :
               /\ ~Fetched(r, changedFiles[r][i].filename)
               /\ \E k \in 2..Len(allIgnorePatterns[r]) :
                      minimatch(changedFiles[r][i].filename, allIgnorePatterns[r][k])
               /\ Fetched(r, changedFiles[r][j].filename)

\* text ends with suffix.
HasSuffix(text, suffix) ==
    Len(text) >= Len(suffix)
    /\ SubSeq(text, Len(text) - Len(suffix) + 1, Len(text)) = suffix

\* The paths that the rule set of C14 is said to leave out.
SaidToBeIgnored(path) ==
    \/ HasSuffix(path, <<".", "m", "d">>)
    \/ HasPrefix(path, NODE_MODULES \o <<"/">>)
    \/ HasPrefix(path, DIST \o <<"/">>)

\* Paths of a repository, in its root and below.
SamplePaths ==
    { README_MD, NOTES_MD, A_TXT,
      <<"d", "o", "c", "s", "/", "r", "e", "a", "d", "m", "e", ".", "m", "d">>,
      NODE_MODULES \o <<"/", "x", ".", "j", "s">>,
      DIST \o <<"/", "y", ".", "j", "s">> }

\* The runs that merged the caller pattern *.md with the .gitignore of C14.
MergedMarkdownAndDirectories ==
    {r \in FannedOut : /\ env[r].ignore_patterns = MarkdownInput
                        /\ env[r].gitignore = DirectoriesGitignore}

\* C14: merging the caller pattern *.md with the .gitignore text
\* "node_modules/", "# comment", "", "dist/" gives exactly the patterns *.md,
\* node_modules/ and dist/, and under them every path that ends in .md or
\* lies under node_modules/ or dist/ is ignored: no such file is fetched.
C14_MergedRulesIgnore ==
    \A r \in MergedMarkdownAndDirectories :
        /\ allIgnorePatterns[r] =
               << MarkdownInput, NODE_MODULES \o <<"/">>, DIST \o <<"/">> >>
        /\ \A p \in SamplePaths :
               SaidToBeIgnored(p) => IsIgnored(p, allIgnorePatterns[r])
        /\ \A i \in 1..Len(changedFiles[r]) :
               SaidToBeIgnored(changedFiles[r][i].filename) =>
                   ~Fetched(r, changedFiles[r][i].filename)

\* C15: the emptiness check, the construction of the prompt and the
\* invocation of the agent happen only when every processFile call has
\* settled; the prompt is built from the lists as they stay, and from then
\* on no content block and no status entry is appended.
C15_FanOutIsBarrier ==
    /\ [](\A r \in SnapshotRuns :
             (joined[r] \/ agentCalls[r] # <<>> \/ warnings[r] # <<>>) =>
                 /\ joined[r]
                 /\ pending[r] = {}
                 /\ Len(fetchRes[r]) = Len(fetchReq[r])
                 /\ \A prompt \in PromptsOf(r) :
                        prompt = BuildPrompt(relevantCode[r], relevantDiffs[r],
                                             ActionPrompt(r)))
    /\ [][\A r \in SnapshotRuns :
             joined'[r] => /\ relevantCode'[r] = relevantCode[r]
                           /\ relevantDiffs'[r] = relevantDiffs[r]]_vars

\* A run that built its prompt after its two fetches had settled, and has
\* heard from the agent since.
C15_Witness ==
    \E r \in SnapshotRuns :
        /\ joined[r]
        /\ Len(fetchReq[r]) = 2
        /\ Len(fetchRes[r]) = 2
        /\ agentCalls[r] # <<>>
        /\ agentRes[r] # <<>>

\* How often run r asked the host for the content of path, and how often
\* such a request settled.
Requests(r, path) == Cardinality({k \in 1..Len(fetchReq[r]) : fetchReq[r][k] = path})
Settled(r, path) == Cardinality(ResultsOf(r, path))

\* C16: within a run the content of every file that matches no pattern is
\* asked for exactly once, whether the request fails or not, and the
\* content of a file that matches a pattern is never asked for; no request
\* is added once the fan-out has started, and none settles twice.
C16_EachFileFetchedOnce ==
    /\ [](\A r \in SnapshotRuns :
             /\ \A i \in 1..Len(changedFiles[r]) :
                    LET path == changedFiles[r][i].filename
                    IN  /\ Settled(r, path) <= Requests(r, path)
                        /\ Requests(r, path) <= 1
                        /\ r \in FannedOut =>
                               Requests(r, path) = IF i \in Surviving(r) THEN 1 ELSE 0
                        /\ joined[r] => Settled(r, path) = Requests(r, path)
             /\ Len(fetchReq[r]) <= Len(changedFiles[r]))
    /\ [][\A r \in FannedOut : fetchReq'[r] = fetchReq[r]]_vars

\* A finished run that left one file out and asked once for the other,
\* whose request failed.
C16_Witness ==
    \E r \in SnapshotRuns :
        /\ pc[r] = "done"
        /\ joined[r]
        /\ \E i, j \in 1..Len(changedFiles[r]) :
               /\ i \notin Surviving(r)
               /\ Requests(r, changedFiles[r][i].filename) = 0
               /\ j \in Surviving(r)
               /\ Requests(r, changedFiles[r][j].filename) = 1
               /\ \E k \in ResultsOf(r, changedFiles[r][j].filename) :
                      fetchRes[r][k].res.kind = "reject"

\* How often x occurs in list.
Count(list, x) == Cardinality({k \in 1..Len(list) : list[k] = x})

\* list1 and list2 hold the same elements, each as often.
SameMultiset(list1, list2) ==
    /\ Len(list1) = Len(list2)
    /\ \A k \in 1..Len(list1) : Count(list1, list1[k]) = Count(list2, list1[k])

\* How the fetch of path ended in run r.
OutcomesOf(r, path) == {fetchRes[r][k].res : k \in ResultsOf(r, path)}

\* Two runs with the same files, the same rule set and, file by file, the
\* same fetch outcomes, both past the join.
SameFilesRulesOutcomes(r1, r2) ==
    /\ joined[r1] /\ joined[r2]
    /\ changedFiles[r1] = changedFiles[r2]
    /\ allIgnorePatterns[r1] = allIgnorePatterns[r2]
    /\ \A i \in 1..Len(changedFiles[r1]) :
           OutcomesOf(r1, changedFiles[r1][i].filename)
               = OutcomesOf(r2, changedFiles[r1][i].filename)

\* C17: two runs with the same file list, rule set and per-file fetch
\* outcomes hold, after the join, the same multiset of content blocks and
\* the same multiset of status entries, in whatever order their fetches
\* settled; each settled fetch has appended its entries once.
C17_InterleavingKeepsMultisets ==
    \A r1, r2 \in SnapshotRuns :
        SameFilesRulesOutcomes(r1, r2) =>
            /\ SameMultiset(relevantCode[r1], relevantCode[r2])
            /\ SameMultiset(relevantDiffs[r1], relevantDiffs[r2])
            /\ Len(relevantDiffs[r1]) = Len(fetchRes[r1])
            /\ Len(relevantCode[r1]) =
                   Cardinality({k \in 1..Len(fetchRes[r1]) :
                                   fetchRes[r1][k].res.kind = "resolve"
                                   /\ fetchRes[r1][k].res.type = "file"
                                   /\ fetchRes[r1][k].res.content.t = "string"})

\* Two runs whose fetches gave content for both files and settled in
\* opposite orders: their lists differ in order only.
C17_Witness ==
    \E r1, r2 \in SnapshotRuns :
        /\ SameFilesRulesOutcomes(r1, r2)
        /\ Len(relevantCode[r1]) = 2
        /\ fetchRes[r1][1].filename # fetchRes[r2][1].filename
        /\ relevantCode[r1] # relevantCode[r2]
        /\ relevantDiffs[r1] # relevantDiffs[r2]
        /\ SameMultiset(relevantCode[r1], relevantCode[r2])

\* The places of text at which an ISO instant starts.
InstantsIn(text) ==
    {k \in 0..(Len(text) - 24) :
        /\ text[k + 5] = "-" /\ text[k + 8] = "-" /\ text[k + 11] = "T"
        /\ text[k + 14] = ":" /\ text[k + 17] = ":" /\ text[k + 20] = "."
        /\ text[k + 24] = "Z"}

\* text without its first ISO instant.
WithoutInstant(text) ==
    IF InstantsIn(text) = {} THEN text
    ELSE LET k == CHOOSE x \in InstantsIn(text) : \A y \in InstantsIn(text) : x <= y
         IN  SubSeq(text, 1, k) \o SubSeq(text, k + 25, Len(text))

WithoutInstants(texts) == [k \in 1..Len(texts) |-> WithoutInstant(texts[k])]

\* Two runs that differ in the debug flag and in nothing else: same event
\* and inputs, same instant of derivation, same answers of the host to the
\* enumeration, same fetch outcomes in the same order of settling, same
\* answer of the agent.
DifferInDebugOnly(r1, r2) ==
    /\ env[r1].debug # env[r2].debug
    /\ env[r1] = [env[r2] EXCEPT !.debug = env[r1].debug]
    /\ startedAt[r1] = startedAt[r2]
    /\ hostRes[r1] = hostRes[r2]
    /\ fetchRes[r1] = fetchRes[r2]
    /\ agentRes[r1] = agentRes[r2]

Ended(r) == pc[r] \in {"done", "crashed"}

\* C18: two runs that differ in the debug flag only pass the same prompt,
\* session identifier and memory identifier to the agent, and when both
\* have ended they ended the same way: the same fatal signals and warnings
\* and the same report, apart from the instants written in them.
C18_DebugChangesNoData ==
    \A r1, r2 \in Runs :
        DifferInDebugOnly(r1, r2) =>
            /\ (agentCalls[r1] # <<>> /\ agentCalls[r2] # <<>>) =>
                   agentCalls[r1] = agentCalls[r2]
            /\ (Ended(r1) /\ Ended(r2)) =>
                   /\ pc[r1] = pc[r2]
                   /\ agentCalls[r1] = agentCalls[r2]
                   /\ WithoutInstants(failed[r1]) = WithoutInstants(failed[r2])
                   /\ warnings[r1] = warnings[r2]
                   /\ errors[r1] = errors[r2]
                   /\ relevantCode[r1] = relevantCode[r2]
                   /\ relevantDiffs[r1] = relevantDiffs[r2]
                   /\ WithoutInstants(stdout[r1]) = WithoutInstants(stdout[r2])

\* Two runs that differ in the debug flag only and have both printed their
\* report, one of them having logged its debug lines.
C18_Witness ==
    \E r1, r2 \in SnapshotRuns :
        /\ DifferInDebugOnly(r1, r2)
        /\ stdout[r1] # <<>> /\ stdout[r2] # <<>>
        /\ Len(fetchRes[r1]) = 2
        /\ trace[r1] # trace[r2]
        /\ agentCalls[r1] = agentCalls[r2]

\* C19: a run invokes the agent at most once and prints at most one report;
\* a report is printed only when the one invocation has returned a
\* response, never in a run that did not invoke the agent, and the
\* invocation is not repeated once it has settled.
C19_OneInvocationOneReport ==
    /\ [](\A r \in Runs :
             /\ Len(agentCalls[r]) <= 1
             /\ Len(agentRes[r]) <= Len(agentCalls[r])
             /\ Len(stdout[r]) <= 1
             /\ stdout[r] # <<>> =>
                    /\ Len(agentCalls[r]) = 1
                    /\ agentRes[r] = <<"resolve">>)
    /\ [][\A r \in Runs :
             /\ agentRes[r] # <<>> => agentCalls'[r] = agentCalls[r]
             /\ stdout'[r] # stdout[r] =>
                    /\ agentCalls[r] # <<>>
                    /\ agentRes[r] = <<>>
                    /\ agentRes'[r] = <<"resolve">>]_vars

\* A run of the snapshot pipeline that invoked the agent once and printed
\* its report after the answer.
C19_Witness ==
    \E r \in SnapshotRuns :
        /\ Len(agentCalls[r]) = 1
        /\ agentRes[r] = <<"resolve">>
        /\ Len(stdout[r]) = 1
        /\ pc[r] = "done"

\* The first place of token in text.
IndexOf(text, token) ==
    CHOOSE k \in 1..Len(text) :
        text[k] = token /\ \A j \in 1..(k - 1) : text[j] # token

\* What text holds between the first from and the first to.
Between(text, from, to) ==
    SubSeq(text, IndexOf(text, from) + 1, IndexOf(text, to) - 1)

\* The numbers that a report of the snapshot pipeline shows.
FilesAnalyzedIn(report) ==
    NumberOf(Between(report, ")\n\n### Files Analyzed: ", "\n### Diffs Analyzed: "))
DiffsAnalyzedIn(report) ==
    NumberOf(Between(report, "\n### Diffs Analyzed: ", "\n\n### Files Processed:\n"))
FilesListedIn(report) == Count(report, "- **")

\* C20: at every moment the content list is at most as long as the status
\* list, which is at most as long as the list of enumerated files; a file
\* with a content block has a status entry, and two content blocks stand in
\* the order of the status entries of their files; so every report shows
\* Files Analyzed <= Diffs Analyzed <= the number of files it lists.
C20_ListsAndCountsOrdered ==
    \A r \in SnapshotRuns :
        /\ Len(relevantCode[r]) <= Len(relevantDiffs[r])
        /\ Len(relevantDiffs[r]) <= Len(changedFiles[r])
        /\ \A i1, i2 \in 1..Len(changedFiles[r]) :
               LET p1 == changedFiles[r][i1].filename
                   p2 == changedFiles[r][i2].filename
               IN  /\ BlocksOf(r, p1) # {} => EntriesOf(r, p1) # {}
                   /\ \A b1 \in BlocksOf(r, p1), b2 \in BlocksOf(r, p2) :
                          \A e1 \in EntriesOf(r, p1), e2 \in EntriesOf(r, p2) :
                              (b1 < b2) <=> (e1 < e2)
        /\ \A k \in 1..Len(stdout[r]) :
               /\ FilesAnalyzedIn(stdout[r][k]) = Len(relevantCode[r])
               /\ FilesAnalyzedIn(stdout[r][k]) <= DiffsAnalyzedIn(stdout[r][k])
               /\ DiffsAnalyzedIn(stdout[r][k]) <= FilesListedIn(stdout[r][k])

\* A report of a run whose second file settled first, both with content: two
\* content blocks and two status entries, in the order of settling.
C20_Witness ==
    \E r \in SnapshotRuns :
        /\ Len(stdout[r]) = 1
        /\ FilesAnalyzedIn(stdout[r][1]) = 2
        /\ DiffsAnalyzedIn(stdout[r][1]) = 2
        /\ FilesListedIn(stdout[r][1]) = 2
        /\ BlocksOf(r, changedFiles[r][2].filename) = {1}
        /\ EntriesOf(r, changedFiles[r][2].filename) = {1}

=============================================================================
